---- MODULE Spec2Model ----
(***************************************************************************)
(* Model of blockchain-libs:                                               *)
(*   - src/provider/chains/btc/sdk/vsize.ts   (estimateVsize, loadOPReturn)*)
(*   - the Solana client's broadcastTransaction                            *)
(*   - the btc / bch providers' pubkeyToAddress and verifyAddress          *)
(*                                                                         *)
(* JavaScript values are modelled as records [k, n, d]: k is the kind      *)
(* ("num" a finite number n/d in lowest terms, "NaN", "inf" +Infinity,     *)
(* "str" a string that is not numeric text, "obj" a function or object,    *)
(* "undef" undefined).  Strings the code inspects are sequences of         *)
(* one-character strings; payload text is a sequence of code points.       *)
(***************************************************************************)
EXTENDS Integers, Sequences, FiniteSets, TLC

VARIABLES
    inputEncodings,     \* estimateVsize argument 1
    outputEncodings,    \* estimateVsize argument 2
    opReturn,           \* argument 3: [defined, value]
    opReturnSizeLimit,  \* argument 4: [defined, value]
    pc,                 \* "ready" | "estimated" | "loaded"
    result,             \* what estimateVsize returned (a JS value)
    vsize,              \* the local `vsize` just before the final Math.ceil
    buffer,             \* what loadOPReturn returned (a byte sequence)
    chainCode,          \* the provider's chain
    pubkey,             \* the key the verifier capability hands out
    ppc,                \* provider position
    address,            \* the string handed to verifyAddress
    derivedEncoding,    \* the encoding pubkeyToAddress was called with
    verification,       \* what verifyAddress resolved to
    rpcCalls,           \* Solana: the RPC calls issued so far
    broadcasts          \* Solana: the results broadcastTransaction resolved to

vsizeVars == <<inputEncodings, outputEncodings, opReturn, opReturnSizeLimit,
               pc, result, vsize, buffer>>
providerVars == <<chainCode, pubkey, ppc, address, derivedEncoding, verification>>
solanaVars == <<rpcCalls, broadcasts>>
vars == <<vsizeVars, providerVars, solanaVars>>

-----------------------------------------------------------------------------
(* Bounds of the model *)
MaxInputs == 2
MaxOutputs == 1
MaxPayloadChars == 2
MaxLimit == 2

-----------------------------------------------------------------------------
(* JavaScript numbers and the operators the code applies to them *)

Abs(x) == IF x < 0 THEN -x ELSE x

RECURSIVE GCD(_, _)
GCD(a, b) == IF b = 0 THEN a ELSE GCD(b, a % b)

\* the finite number n/d (d # 0), in lowest terms with a positive denominator
Rat(n, d) ==
    LET g == GCD(Abs(n), Abs(d))
        s == IF d < 0 THEN -1 ELSE 1
    IN  [k |-> "num", n |-> (s * n) \div g, d |-> (s * d) \div g]

Num(n) == [k |-> "num", n |-> n, d |-> 1]
NaN == [k |-> "NaN", n |-> 0, d |-> 1]
Infinity == [k |-> "inf", n |-> 0, d |-> 1]
NonNumericString == [k |-> "str", n |-> 0, d |-> 1]
InheritedMember == [k |-> "obj", n |-> 0, d |-> 1]
Undefined == [k |-> "undef", n |-> 0, d |-> 1]

\* ToNumber
ToNumber(v) ==
    IF v.k \in {"num", "inf"} THEN v ELSE NaN

\* a + b: string concatenation as soon as one side is a string or an object
\* (a function or object converts to text such as "function Object() {...}")
Add(a, b) ==
    IF a.k \in {"str", "obj"} \/ b.k \in {"str", "obj"} THEN NonNumericString
    ELSE LET x == ToNumber(a)
             y == ToNumber(b)
         IN  IF x.k = "NaN" \/ y.k = "NaN" THEN NaN
             ELSE IF x.k = "inf" \/ y.k = "inf" THEN Infinity
             ELSE Rat(x.n * y.d + y.n * x.d, x.d * y.d)

\* a * b for a finite a > 0
Mul(a, b) ==
    LET y == ToNumber(b)
    IN  IF y.k = "NaN" THEN NaN
        ELSE IF y.k = "inf" THEN Infinity
        ELSE Rat(a.n * y.n, a.d * y.d)

\* x / y for integers x >= 0 and y
Div(x, y) ==
    IF y # 0 THEN Rat(x, y)
    ELSE IF x = 0 THEN NaN
    ELSE Infinity

\* Math.ceil
MathCeil(v) ==
    LET x == ToNumber(v)
    IN  IF x.k = "num" THEN Num(-((-x.n) \div x.d)) ELSE x

\* v || 0
OrZero(v) ==
    IF v.k = "undef" \/ v.k = "NaN" \/ (v.k = "num" /\ v.n = 0) THEN Num(0) ELSE v

IsInteger(v) == v.k = "num" /\ v.d = 1

-----------------------------------------------------------------------------
(* Strings *)

\* String.prototype.includes
includes(s, sub) ==
    \E i \in 1..(Len(s) + 1) :
        /\ i + Len(sub) - 1 <= Len(s)
        /\ SubSeq(s, i, i + Len(sub) - 1) = sub

\* the UTF-8 bytes of one code point (below 65536)
Utf8(cp) ==
    IF cp < 128 THEN <<cp>>
    ELSE IF cp < 2048 THEN <<192 + (cp \div 64), 128 + (cp % 64)>>
    ELSE <<224 + (cp \div 4096), 128 + ((cp \div 64) % 64), 128 + (cp % 64)>>

\* Buffer.from(text): the UTF-8 encoding of the text
RECURSIVE BufferFrom(_)
BufferFrom(text) ==
    IF text = <<>> THEN <<>>
    ELSE Utf8(Head(text)) \o BufferFrom(Tail(text))

\* buffer.slice(0, end): a negative end counts from the end of the buffer
BufferSlice0(buf, end) ==
    LET e0 == IF end < 0 THEN end + Len(buf) ELSE end
        e == IF e0 < 0 THEN 0 ELSE IF e0 > Len(buf) THEN Len(buf) ELSE e0
    IN  SubSeq(buf, 1, e)

-----------------------------------------------------------------------------
(* vsize.ts *)

P2PKH == <<"P", "2", "P", "K", "H">>
P2WPKH == <<"P", "2", "W", "P", "K", "H">>
P2SH_P2WPKH == <<"P", "2", "S", "H", "-">> \o P2WPKH

HEADER_VSIZE == 10
SEGWIT_HEADER_EXTENSION_VSIZE == Rat(1, 2)
INPUT_VSIZE_LOOKUP == (P2PKH :> 148) @@ (P2WPKH :> 68) @@ (P2SH_P2WPKH :> 91)
SEGWIT_INPUT_WITNESS_ITEM_COUNT_VSIZE == Rat(1, 4)
OUTPUT_VSIZE_LOOKUP == (P2PKH :> 34) @@ (P2WPKH :> 31) @@ (P2SH_P2WPKH :> 32)
OP_RETURN_OUTPUT_PREFIX_VSIZE == 12
PLACEHOLDER_VSIZE == 79
TX_OP_RETURN_SIZE_LIMIT == 80

\* names every object literal inherits from Object.prototype
ObjectPrototypeKeys == { <<"c", "o", "n", "s", "t", "r", "u", "c", "t", "o", "r">> }

\* table[key] on an object literal: own keys, then the prototype's members
Lookup(table, key) ==
    IF key \in DOMAIN table THEN Num(table[key])
    ELSE IF key \in ObjectPrototypeKeys THEN InheritedMember
    ELSE Undefined

\* values.reduce((acc, cur) => acc + cur, 0)
RECURSIVE ReduceAdd(_, _)
ReduceAdd(values, acc) ==
    IF values = <<>> THEN acc
    ELSE ReduceAdd(Tail(values), Add(acc, Head(values)))

\* a parameter with a default value
Param(p, default) == IF p.defined THEN p.value ELSE default

\* mutant: the payload is not truncated
loadOPReturnWhole(text, sizeLimit) ==
    BufferFrom(text)

loadOPReturn(text, sizeLimit) ==
    BufferSlice0(BufferFrom(text), Param(sizeLimit, TX_OP_RETURN_SIZE_LIMIT))

\* mutant: only the first input is inspected
hasSegwitFirstOnly(ins) ==
    ins # <<>> /\ includes(ins[1], P2WPKH)

hasSegwit(ins) ==
    Len(SelectSeq(ins, LAMBDA encoding : includes(encoding, P2WPKH))) >= 1

\* what lines 40 and 45 add to vsize between them
SegwitOverhead(ins) ==
    IF hasSegwit(ins)
    THEN Add(SEGWIT_HEADER_EXTENSION_VSIZE, SEGWIT_INPUT_WITNESS_ITEM_COUNT_VSIZE)
    ELSE Num(0)

\* mutant: the witness-item-count overhead is added per segwit input
BaseVsizePerSegwitInput(ins, outs) ==
    LET v0 == Num(HEADER_VSIZE)
        v1 == IF hasSegwit(ins) THEN Add(v0, SEGWIT_HEADER_EXTENSION_VSIZE) ELSE v0
        v2 == Add(v1, ReduceAdd([i \in DOMAIN ins |->
                                   OrZero(Lookup(INPUT_VSIZE_LOOKUP, ins[i]))], Num(0)))
        v3 == Add(v2, ReduceAdd([i \in DOMAIN ins |->
                                   IF includes(ins[i], P2WPKH)
                                   THEN SEGWIT_INPUT_WITNESS_ITEM_COUNT_VSIZE
                                   ELSE Num(0)], Num(0)))
    IN  Add(v3, ReduceAdd([i \in DOMAIN outs |->
                             OrZero(Lookup(OUTPUT_VSIZE_LOOKUP, outs[i]))], Num(0)))

\* the vsize after the input and output sums (lines 34-49)
BaseVsize(ins, outs) ==
    LET v0 == Num(HEADER_VSIZE)
        v1 == IF hasSegwit(ins) THEN Add(v0, SEGWIT_HEADER_EXTENSION_VSIZE) ELSE v0
        v2 == Add(v1, ReduceAdd([i \in DOMAIN ins |->
                                   OrZero(Lookup(INPUT_VSIZE_LOOKUP, ins[i]))], Num(0)))
        v3 == IF hasSegwit(ins) THEN Add(v2, SEGWIT_INPUT_WITNESS_ITEM_COUNT_VSIZE) ELSE v2
    IN  Add(v3, ReduceAdd([i \in DOMAIN outs |->
                             OrZero(Lookup(OUTPUT_VSIZE_LOOKUP, outs[i]))], Num(0)))

\* the local `opReturnLength` (line 52); the limit has its default applied
opReturnLength(op, sizeLimit) ==
    Len(loadOPReturn(op.value,
                     [defined |-> TRUE, value |-> Param(sizeLimit, TX_OP_RETURN_SIZE_LIMIT)]))

\* Math.ceil(opReturnLength / opReturnSizeLimit) (line 55)
ChunkCount(op, sizeLimit) ==
    MathCeil(Div(opReturnLength(op, sizeLimit), Param(sizeLimit, TX_OP_RETURN_SIZE_LIMIT)))

\* the vsize after the payload block (lines 51-57)
WithOPReturn(v, op, sizeLimit) ==
    IF op.defined
    THEN Add(Add(v, Mul(Num(OP_RETURN_OUTPUT_PREFIX_VSIZE), ChunkCount(op, sizeLimit))),
             Num(opReturnLength(op, sizeLimit)))
    ELSE v

\* the local `vsize` when line 59 is reached
TotalVsize(ins, outs, op, sizeLimit) ==
    WithOPReturn(BaseVsize(ins, outs), op, sizeLimit)

\* mutant: Math.floor at the end
estimateVsizeFloor(ins, outs, op, sizeLimit) ==
    LET v == ToNumber(TotalVsize(ins, outs, op, sizeLimit))
    IN  IF v.k = "num" THEN Num(v.n \div v.d) ELSE v

\* mutant: each fractional overhead is rounded up when it is added
estimateVsizeRoundEach(ins, outs, op, sizeLimit) ==
    LET v0 == Num(HEADER_VSIZE)
        v1 == IF hasSegwit(ins)
              THEN MathCeil(Add(v0, SEGWIT_HEADER_EXTENSION_VSIZE)) ELSE v0
        v2 == Add(v1, ReduceAdd([i \in DOMAIN ins |->
                                   OrZero(Lookup(INPUT_VSIZE_LOOKUP, ins[i]))], Num(0)))
        v3 == IF hasSegwit(ins)
              THEN MathCeil(Add(v2, SEGWIT_INPUT_WITNESS_ITEM_COUNT_VSIZE)) ELSE v2
        v4 == Add(v3, ReduceAdd([i \in DOMAIN outs |->
                                   OrZero(Lookup(OUTPUT_VSIZE_LOOKUP, outs[i]))], Num(0)))
    IN  MathCeil(WithOPReturn(v4, op, sizeLimit))

estimateVsize(ins, outs, op, sizeLimit) ==
    MathCeil(TotalVsize(ins, outs, op, sizeLimit))

-----------------------------------------------------------------------------
(* The inputs the size estimator is applied to *)

SeqsUpTo(S, n) == UNION { [1..m -> S] : m \in 0..n }

\* misspelled and nonsensical tags: one that still contains "P2WPKH", one that
\* does not, and one that names a member of Object.prototype
P2WPKHH == P2WPKH \o <<"H">>
P2WKH == <<"P", "2", "W", "K", "H">>
EncodingStrings ==
    {P2PKH, P2WPKH, P2SH_P2WPKH, P2WPKHH, P2WKH} \cup ObjectPrototypeKeys

\* output encodings are only looked up, never searched: two keys of the table
\* and one misspelled tag
OutputEncodingStrings == {P2PKH, P2WPKH, P2WKH}

\* "a" (one byte in UTF-8) and "e acute" (two bytes)
PayloadChars == {97, 233}

Payloads ==
    {[defined |-> FALSE, value |-> <<>>]}
    \cup {[defined |-> TRUE, value |-> t] : t \in SeqsUpTo(PayloadChars, MaxPayloadChars)}

SizeLimits ==
    {[defined |-> FALSE, value |-> 0]}
    \cup {[defined |-> TRUE, value |-> l] : l \in (-1)..MaxLimit}

InitVsize ==
    /\ inputEncodings \in SeqsUpTo(EncodingStrings, MaxInputs)
    /\ outputEncodings \in SeqsUpTo(OutputEncodingStrings, MaxOutputs)
    /\ opReturn \in Payloads
    /\ opReturnSizeLimit \in SizeLimits
    /\ pc = "ready"
    /\ result = Undefined
    /\ vsize = Undefined
    /\ buffer = <<>>

CallEstimateVsize ==
    /\ pc = "ready"
    /\ vsize' = TotalVsize(inputEncodings, outputEncodings, opReturn, opReturnSizeLimit)
    /\ result' = estimateVsize(inputEncodings, outputEncodings, opReturn, opReturnSizeLimit)
    /\ pc' = "estimated"
    /\ UNCHANGED <<inputEncodings, outputEncodings, opReturn, opReturnSizeLimit, buffer>>

CallLoadOPReturn ==
    /\ pc = "ready"
    /\ opReturn.defined
    /\ buffer' = loadOPReturn(opReturn.value, opReturnSizeLimit)
    /\ pc' = "loaded"
    /\ UNCHANGED <<inputEncodings, outputEncodings, opReturn, opReturnSizeLimit,
                   result, vsize>>

-----------------------------------------------------------------------------
(* The Solana client: broadcastTransaction *)

MaxBroadcasts == 3
RawTxs == {"txA", "txB"}

SEND_TRANSACTION == "sendTransaction"
BASE64 == "base64"

\* this.rpc.call(method, params) as seen by its caller: it either throws before
\* returning, or returns a promise that is still pending
RpcCall(method, rawTx, throws) ==
    [method |-> method, rawTx |-> rawTx, encoding |-> BASE64,
     state |-> IF throws THEN "threw" ELSE "pending"]

InitSolana ==
    /\ rpcCalls = <<>>
    /\ broadcasts = <<>>

\* mutant: the call is awaited inside the try block, so a rejection is caught
BroadcastTransactionAwaited(rawTx, throws) ==
    /\ Len(broadcasts) < MaxBroadcasts
    /\ \E settled \in {"fulfilled", "rejected"} :
        LET call == [RpcCall(SEND_TRANSACTION, rawTx, throws) EXCEPT
                        !.state = IF throws THEN "threw" ELSE settled]
        IN  /\ rpcCalls' = Append(rpcCalls, call)
            /\ broadcasts' = Append(broadcasts,
                                    [rawTx |-> rawTx, call |-> Len(rpcCalls) + 1,
                                     isSuccess |-> call.state = "fulfilled"])

\* the whole body of broadcastTransaction: no await, so it runs to its return
BroadcastTransaction(rawTx, throws) ==
    /\ Len(broadcasts) < MaxBroadcasts
    /\ rpcCalls' = Append(rpcCalls, RpcCall(SEND_TRANSACTION, rawTx, throws))
    /\ broadcasts' = Append(broadcasts,
                            [rawTx |-> rawTx, call |-> Len(rpcCalls) + 1,
                             isSuccess |-> ~throws])

\* the node answers: the promise of call i is fulfilled
RpcFulfilled(i) ==
    /\ rpcCalls[i].state = "pending"
    /\ rpcCalls' = [rpcCalls EXCEPT ![i].state = "fulfilled"]
    /\ UNCHANGED broadcasts

\* the node refuses, or the network fails: the promise of call i is rejected
RpcRejected(i) ==
    /\ rpcCalls[i].state = "pending"
    /\ rpcCalls' = [rpcCalls EXCEPT ![i].state = "rejected"]
    /\ UNCHANGED broadcasts

Broadcast == \E rawTx \in RawTxs, throws \in BOOLEAN : BroadcastTransaction(rawTx, throws)
Fulfil == \E i \in DOMAIN rpcCalls : RpcFulfilled(i)
Reject == \E i \in DOMAIN rpcCalls : RpcRejected(i)

-----------------------------------------------------------------------------
(* The btc and bch providers: pubkeyToAddress and verifyAddress.              *)
(* An address string is the record of the parts its text encodes:             *)
(* [scheme, prefix, hash, checksum].                                          *)

MaxPubkey == 3
Pubkeys == 1..MaxPubkey
ChainCodes == {"btc", "bch"}

\* the provider class the chain code selects
getProvider(code) == IF code = "bch" THEN "BCHProvider" ELSE "BTCProvider"

SupportedEncodings(provider) ==
    IF provider = "BCHProvider" THEN {P2PKH} ELSE {P2PKH, P2WPKH, P2SH_P2WPKH}

\* hash of the public key, and hash of the redeem script wrapping that hash
Hash160(key) == (5 * key + 3) % 11
RedeemScriptHash(keyHash) == (7 * keyHash + 1) % 11

Checksum(scheme, prefix, hash) ==
    (3 * hash + prefix + (IF scheme = "base58check" THEN 1
                          ELSE IF scheme = "bech32" THEN 2 ELSE 4)) % 7

Encode(scheme, prefix, hash) ==
    [scheme |-> scheme, prefix |-> prefix, hash |-> hash,
     checksum |-> Checksum(scheme, prefix, hash)]

\* version bytes of the legacy formats; 0 also stands for the one
\* human-readable prefix of the segwit and cashaddr formats
PubKeyHashVersion == 0
ScriptHashVersion == 5

pubkeyToAddressOf(provider, key, encoding) ==
    IF provider = "BCHProvider"
    THEN Encode("cashaddr", PubKeyHashVersion, Hash160(key))
    ELSE IF encoding = P2PKH THEN Encode("base58check", PubKeyHashVersion, Hash160(key))
    ELSE IF encoding = P2WPKH THEN Encode("bech32", PubKeyHashVersion, Hash160(key))
    ELSE Encode("base58check", ScriptHashVersion, RedeemScriptHash(Hash160(key)))

\* the schemes a provider tries, in its priority order, with the prefixes each
\* accepts and the encoding each prefix stands for
Schemes(provider) ==
    IF provider = "BCHProvider"
    THEN << [scheme |-> "cashaddr", encodings |-> (PubKeyHashVersion :> P2PKH)],
            [scheme |-> "base58check", encodings |-> (PubKeyHashVersion :> P2PKH)] >>
    ELSE << [scheme |-> "bech32", encodings |-> (PubKeyHashVersion :> P2WPKH)],
            [scheme |-> "base58check",
             encodings |-> (PubKeyHashVersion :> P2PKH) @@ (ScriptHashVersion :> P2SH_P2WPKH)] >>

\* checksum and structural validation of a string under one scheme
Validates(s, a) ==
    /\ a.scheme = s.scheme
    /\ a.prefix \in DOMAIN s.encodings
    /\ a.checksum = Checksum(a.scheme, a.prefix, a.hash)

\* the canonical form used for comparisons: the provider's first scheme when
\* that scheme can express the script, else the scheme matched
Normalize(provider, s, a) ==
    IF provider = "BCHProvider" THEN Encode("cashaddr", a.prefix, a.hash) ELSE a

\* mutant: every base58check address is reported as legacy pay-to-pubkey-hash
verifyAddressLegacyOnly(provider, a) ==
    LET ss == Schemes(provider)
        hits == {i \in DOMAIN ss : Validates(ss[i], a)}
    IN  IF hits = {} THEN [isValid |-> FALSE]
        ELSE LET first == CHOOSE i \in hits : \A j \in hits : i <= j
             IN  [isValid |-> TRUE,
                  displayAddress |-> a,
                  normalizedAddress |-> Normalize(provider, ss[first], a),
                  encoding |-> IF a.scheme = "base58check" THEN P2PKH
                               ELSE ss[first].encodings[a.prefix]]

verifyAddressOf(provider, a) ==
    LET ss == Schemes(provider)
        hits == {i \in DOMAIN ss : Validates(ss[i], a)}
    IN  IF hits = {} THEN [isValid |-> FALSE]
        ELSE LET first == CHOOSE i \in hits : \A j \in hits : i <= j
             IN  [isValid |-> TRUE,
                  displayAddress |-> a,
                  normalizedAddress |-> Normalize(provider, ss[first], a),
                  encoding |-> ss[first].encodings[a.prefix]]

NoAddress == Encode("none", 0, 0)
NoVerification == [isValid |-> FALSE, pending |-> TRUE]

\* strings handed to verifyAddress that no derivation produced
CandidateAddresses ==
    [scheme : {"base58check", "bech32", "cashaddr"},
     prefix : {PubKeyHashVersion, ScriptHashVersion},
     hash : {Hash160(k) : k \in Pubkeys},
     checksum : 0..6]

InitProvider ==
    /\ chainCode \in ChainCodes
    /\ pubkey \in Pubkeys
    /\ ppc = "idle"
    /\ address = NoAddress
    /\ derivedEncoding = <<>>
    /\ verification = NoVerification

\* pubkeyToAddress(verifier, encoding): awaits the key, then derives
PubkeyToAddress(encoding, verifierOk) ==
    /\ ppc = "idle"
    /\ derivedEncoding' = encoding
    /\ IF ~verifierOk
       THEN ppc' = "verifierFailed" /\ UNCHANGED address
       ELSE IF encoding \notin SupportedEncodings(getProvider(chainCode))
       THEN ppc' = "unsupportedEncoding" /\ UNCHANGED address
       ELSE /\ ppc' = "derived"
            /\ address' = pubkeyToAddressOf(getProvider(chainCode), pubkey, encoding)
    /\ UNCHANGED <<chainCode, pubkey, verification>>

\* verifyAddress applied to the address pubkeyToAddress returned
VerifyDerived ==
    /\ ppc = "derived"
    /\ verification' = verifyAddressOf(getProvider(chainCode), address)
    /\ ppc' = "verified"
    /\ UNCHANGED <<chainCode, pubkey, address, derivedEncoding>>

\* verifyAddress applied to any other string
VerifyAny(a) ==
    /\ ppc = "idle"
    /\ address' = a
    /\ verification' = verifyAddressOf(getProvider(chainCode), a)
    /\ ppc' = "checked"
    /\ UNCHANGED <<chainCode, pubkey, derivedEncoding>>

Derive == \E e \in EncodingStrings, ok \in BOOLEAN : PubkeyToAddress(e, ok)
Verify == \E a \in CandidateAddresses : VerifyAny(a)

-----------------------------------------------------------------------------
(* Specifications *)

VsizeIdle ==
    /\ inputEncodings = <<>>
    /\ outputEncodings = <<>>
    /\ opReturn = [defined |-> FALSE, value |-> <<>>]
    /\ opReturnSizeLimit = [defined |-> FALSE, value |-> 0]
    /\ pc = "ready"
    /\ result = Undefined
    /\ vsize = Undefined
    /\ buffer = <<>>

ProviderIdle ==
    /\ chainCode = "btc"
    /\ pubkey = 1
    /\ ppc = "idle"
    /\ address = NoAddress
    /\ derivedEncoding = <<>>
    /\ verification = NoVerification

\* the size estimator
Init == InitVsize /\ ProviderIdle /\ InitSolana
Next ==
    \/ CallEstimateVsize /\ UNCHANGED <<providerVars, solanaVars>>
    \/ CallLoadOPReturn /\ UNCHANGED <<providerVars, solanaVars>>
Spec == Init /\ [][Next]_vars

\* the providers
InitP == VsizeIdle /\ InitProvider /\ InitSolana
NextP ==
    \/ Derive /\ UNCHANGED <<vsizeVars, solanaVars>>
    \/ VerifyDerived /\ UNCHANGED <<vsizeVars, solanaVars>>
    \/ Verify /\ UNCHANGED <<vsizeVars, solanaVars>>
SpecProvider == InitP /\ [][NextP]_vars

\* the Solana client
InitS == VsizeIdle /\ ProviderIdle /\ InitSolana
NextS ==
    \/ Broadcast /\ UNCHANGED <<vsizeVars, providerVars>>
    \/ Fulfil /\ UNCHANGED <<vsizeVars, providerVars>>
    \/ Reject /\ UNCHANGED <<vsizeVars, providerVars>>
SpecSolana == InitS /\ [][NextS]_vars

-----------------------------------------------------------------------------
(* Properties *)

RemoveAt(s, i) == SubSeq(s, 1, i - 1) \o SubSeq(s, i + 1, Len(s))

Min(a, b) == IF a < b THEN a ELSE b

\* the cost the table documents for an encoding: its entry, zero when absent
TableCost(table, encoding) ==
    IF encoding \in DOMAIN table THEN table[encoding] ELSE 0

RECURSIVE SumCosts(_, _)
SumCosts(table, encodings) ==
    IF encodings = <<>> THEN 0
    ELSE TableCost(table, Head(encodings)) + SumCosts(table, Tail(encodings))

\* number of inputs that are exactly the native-segwit encoding
SegwitInputCount == Cardinality({i \in DOMAIN inputEncodings : inputEncodings[i] = P2WPKH})

\* no encoding resolves to a member inherited from Object.prototype, so every
\* table cost is a number
CostsAreNumbers ==
    \A i \in DOMAIN inputEncodings \cup DOMAIN outputEncodings :
        /\ i \in DOMAIN inputEncodings => inputEncodings[i] \notin ObjectPrototypeKeys
        /\ i \in DOMAIN outputEncodings => outputEncodings[i] \notin ObjectPrototypeKeys

PayloadBytes == Len(BufferFrom(opReturn.value))
Limit == Param(opReturnSizeLimit, TX_OP_RETURN_SIZE_LIMIT)
NoPayload == [defined |-> FALSE, value |-> <<>>]

\* C1: an encoding string that is not a key of the size lookup table, at any one
\* input or output position, leaves the estimate equal to the estimate with that
\* entry omitted.
C1_UnknownEncodingCostsNothing ==
    pc = "estimated" =>
        /\ \A i \in DOMAIN inputEncodings :
              inputEncodings[i] \notin DOMAIN INPUT_VSIZE_LOOKUP =>
                 result = estimateVsize(RemoveAt(inputEncodings, i), outputEncodings,
                                        opReturn, opReturnSizeLimit)
        /\ \A j \in DOMAIN outputEncodings :
              outputEncodings[j] \notin DOMAIN OUTPUT_VSIZE_LOOKUP =>
                 result = estimateVsize(inputEncodings, RemoveAt(outputEncodings, j),
                                        opReturn, opReturnSizeLimit)

\* C2: for a chunk limit L >= 1 and a payload of 2*L+1 bytes, the estimate
\* exceeds the estimate without a payload by 3*12 prefix-overhead virtual bytes
\* plus the counted payload length.
C2_ThreeChunksOfPrefixOverhead ==
    (/\ pc = "estimated"
     /\ opReturn.defined
     /\ Limit >= 1
     /\ PayloadBytes = 2 * Limit + 1) =>
        result = Add(estimateVsize(inputEncodings, outputEncodings, NoPayload,
                                   opReturnSizeLimit),
                     Num(3 * OP_RETURN_OUTPUT_PREFIX_VSIZE
                         + Len(loadOPReturn(opReturn.value, opReturnSizeLimit))))

\* C3: the estimate for the single input "P2WPKH" with no outputs and no payload
\* is 79, and PLACEHOLDER_VSIZE is that value.
C3_PlaceholderVsize ==
    (/\ pc = "estimated"
     /\ inputEncodings = <<P2WPKH>>
     /\ outputEncodings = <<>>
     /\ ~opReturn.defined) =>
        /\ result = Num(79)
        /\ result = Num(PLACEHOLDER_VSIZE)

C3_Witness ==
    /\ pc = "estimated"
    /\ inputEncodings = <<P2WPKH>>
    /\ outputEncodings = <<>>
    /\ ~opReturn.defined
    /\ result = Num(PLACEHOLDER_VSIZE)

\* C4: for all encoding sequences, payloads and integer chunk limits, zero
\* included, estimateVsize returns an integer.
C4_ReturnsAnInteger ==
    pc = "estimated" => IsInteger(result)

C7_SegwitOverheadOnce ==
    (pc = "estimated" /\ SegwitInputCount >= 1) =>
        /\ SegwitOverhead(inputEncodings) = Rat(3, 4)
        /\ CostsAreNumbers =>
              vsize = WithOPReturn(
                          Rat(4 * (HEADER_VSIZE
                                   + SumCosts(INPUT_VSIZE_LOOKUP, inputEncodings)
                                   + SumCosts(OUTPUT_VSIZE_LOOKUP, outputEncodings)) + 3, 4),
                          opReturn, opReturnSizeLimit)

C7_Witness ==
    /\ pc = "estimated"
    /\ inputEncodings = <<P2WPKH, P2WPKH>>
    /\ outputEncodings = <<>>
    /\ ~opReturn.defined
    /\ vsize = Rat(587, 4)

\* C8: the estimate is the ceiling of the exact total, rounded once at the end:
\* total <= result < total + 1 whenever the total is a finite number (so 0.5 and
\* 0.25 together raise it by one), and NaN when it is not.
C8_RoundedOnceAtTheEnd ==
    pc = "estimated" =>
        /\ CostsAreNumbers =>
              vsize = WithOPReturn(
                          Rat(4 * (HEADER_VSIZE
                                   + SumCosts(INPUT_VSIZE_LOOKUP, inputEncodings)
                                   + SumCosts(OUTPUT_VSIZE_LOOKUP, outputEncodings))
                              + (IF hasSegwit(inputEncodings) THEN 3 ELSE 0), 4),
                          opReturn, opReturnSizeLimit)
        /\ IF vsize.k = "num"
           THEN /\ IsInteger(result)
                /\ vsize.n <= result.n * vsize.d
                /\ result.n * vsize.d < vsize.n + vsize.d
           ELSE result = NaN

C8_Witness ==
    /\ pc = "estimated"
    /\ hasSegwit(inputEncodings)
    /\ vsize.k = "num"
    /\ vsize.d = 4
    /\ result.n * 4 = vsize.n + 1

\* C9: loadOPReturn returns the first min(byteLength, L) bytes of the payload for
\* every L >= 0, so estimateVsize counts at most L bytes and charges the prefix
\* overhead for no chunk when the payload is empty and for one chunk otherwise.
C9_TruncatesToOneChunk ==
    /\ (pc = "loaded" /\ Limit >= 0) =>
          buffer = SubSeq(BufferFrom(opReturn.value), 1, Min(PayloadBytes, Limit))
    /\ (pc = "estimated" /\ opReturn.defined /\ Limit >= 0) =>
          /\ opReturnLength(opReturn, opReturnSizeLimit) = Min(PayloadBytes, Limit)
          /\ Limit >= 1 =>
                ChunkCount(opReturn, opReturnSizeLimit)
                    = Num(IF PayloadBytes = 0 THEN 0 ELSE 1)
          /\ (Limit >= 1 /\ CostsAreNumbers) =>
                vsize = Add(BaseVsize(inputEncodings, outputEncodings),
                            Num(OP_RETURN_OUTPUT_PREFIX_VSIZE
                                  * (IF PayloadBytes = 0 THEN 0 ELSE 1)
                                + Min(PayloadBytes, Limit)))

C9_Witness ==
    /\ pc = "loaded"
    /\ Limit = 2
    /\ PayloadBytes = 4
    /\ Len(buffer) = 2

\* C10: broadcastTransaction issues exactly one sendTransaction call and resolves
\* to true unless starting that call threw; the later outcome of the call
\* (fulfilled, rejected, still pending) never changes the result.
C10_FireAndForget ==
    /\ Len(rpcCalls) = Len(broadcasts)
    /\ \A b \in DOMAIN broadcasts :
        /\ broadcasts[b].call = b
        /\ rpcCalls[b].method = SEND_TRANSACTION
        /\ rpcCalls[b].rawTx = broadcasts[b].rawTx
        /\ broadcasts[b].isSuccess = (rpcCalls[b].state # "threw")

C10_Witness ==
    \E b \in DOMAIN broadcasts :
        /\ rpcCalls[b].state = "rejected"
        /\ broadcasts[b].isSuccess

\* C6: verifyAddress applied to the address pubkeyToAddress returned resolves to
\* isValid with that address as displayAddress and normalizedAddress and with the
\* encoding the address was derived for.
C6_DeriveThenVerify ==
    ppc = "verified" =>
        verification = [isValid |-> TRUE,
                        displayAddress |-> address,
                        normalizedAddress |-> address,
                        encoding |-> derivedEncoding]

C6_Witness ==
    /\ ppc = "verified"
    /\ chainCode = "btc"
    /\ derivedEncoding = P2SH_P2WPKH
    /\ verification.isValid

====
